---------------------------- MODULE Spec2Model ----------------------------
(***************************************************************************)
(* A model of libfive's expression tape (libfive/src/eval/tape.cpp) and of *)
(* the simplex-cell tree build (libfive/src/render/brep/simplex/           *)
(* simplex_tree.cpp).                                                      *)
(*                                                                         *)
(* SpecTape : Tape::Tape, Tape::push, Tape::pop, Tape::getBase and the     *)
(*            Tape::Handle life cycle over every small expression DAG.     *)
(***************************************************************************)
EXTENDS Integers, Sequences, FiniteSets, TLC

(***************************************************************************)
(* Bounds of the model.                                                    *)
(***************************************************************************)
\* largest number of nodes of the flattened expression handed to Tape::Tape:
\* MaxNodes where single pushes are explored, StackNodes where runs of pushes
\* and getBase calls are, HandleNodes where Handles are moved as well
MaxNodes == 4
StackNodes == 3
HandleNodes == 2
\* the depth of the pushes explored with every classifier
PushDepth == 1
\* number of Handle objects that can be alive at the same time
MaxHandles == 3
\* number of tape operations (push, getBase, Handle moves and destructions)
\* in one run
MaxOps == 5

(***************************************************************************)
(* Opcodes (the ones tape.cpp distinguishes) and the Keep answers.         *)
(***************************************************************************)
LeafOps == {"VAR_X", "CONSTANT", "ORACLE"}
UnaryOps == {"NEG"}
BinaryOps == {"MIN"}
Keep == {"KEEP_A", "KEEP_B", "KEEP_BOTH", "KEEP_ALWAYS"}

\* Tape::hasDummyChildren
hasDummyChildren(op) == op \in {"CONSTANT", "VAR_FREE", "ORACLE"}

(***************************************************************************)
(* The input of Tape::Tape: root.ordered(), a list of nodes in topological *)
(* order.  A node is [op, lhs, rhs]; lhs and rhs are positions of earlier  *)
(* nodes in the list, 0 for a null operand.                                *)
(***************************************************************************)
NodesOver(k) ==
    [op : LeafOps, lhs : {0}, rhs : {0}]
    \cup [op : UnaryOps, lhs : 1..k, rhs : {0}]
    \cup [op : BinaryOps, lhs : 1..k, rhs : 1..k]

RECURSIVE OrderedLists(_)
OrderedLists(n) ==
    IF n = 0 THEN {<< >>}
    ELSE {Append(f, nd) : f \in OrderedLists(n - 1), nd \in NodesOver(n - 1)}

\* the positions reachable from position i through operand references
RECURSIVE ReachFrom(_, _)
ReachFrom(flat, i) ==
    IF i = 0 THEN {}
    ELSE {i} \cup ReachFrom(flat, flat[i].lhs) \cup ReachFrom(flat, flat[i].rhs)

\* A flattened tree holds each node once: the root is last, every node is
\* reachable from it, there is one VAR_X node and no two equal operations.
IsFlatTree(flat) ==
    /\ Len(flat) >= 1
    /\ ReachFrom(flat, Len(flat)) = 1..Len(flat)
    /\ \A i, j \in 1..Len(flat) :
          (i # j /\ ~hasDummyChildren(flat[i].op)) => flat[i] # flat[j]

FlatTrees(most) ==
    UNION {{f \in OrderedLists(n) : IsFlatTree(f)} : n \in 1..most}

(***************************************************************************)
(* Tape::Tape, lines 25-84: the clause list.  Node i gets id i (ids.size() *)
(* before its insertion) and is pushed to the FRONT of the list, so the    *)
(* clause of the root comes first.                                         *)
(***************************************************************************)
\* the number of nodes before position i with the given opcode
\* (constants.size() / oracles.size() when node i is reached)
CountBefore(flat, i, op) == Cardinality({j \in 1..(i - 1) : flat[j].op = op})

\* lines 33-36: ids holds {nullptr, 0} and the i - 1 nodes before node i
\* when it is reached
IdFromZero(i) == i - 1
IdOf(i) == i

ClauseOf(flat, i) ==
    LET nd == flat[i] IN
    IF nd.lhs # 0 \/ nd.rhs # 0   \* m->rank > 0
    THEN [op |-> nd.op, id |-> IdOf(i), a |-> IdOf(nd.lhs), b |-> IdOf(nd.rhs)]
    ELSE IF hasDummyChildren(nd.op)
    THEN [op |-> nd.op, id |-> IdOf(i), a |-> CountBefore(flat, i, nd.op), b |-> 0]
    ELSE [op |-> nd.op, id |-> IdOf(i), a |-> 0, b |-> 0]

\* position p of the vector tape holds the clause of node n + 1 - p
BaseClausesForward(flat) ==
    [p \in 1..Len(flat) |-> ClauseOf(flat, p)]
BaseClauses(flat) ==
    [p \in 1..Len(flat) |-> ClauseOf(flat, Len(flat) + 1 - p)]

(***************************************************************************)
(* Tape::assignSlots, lines 290-363.                                       *)
(***************************************************************************)
\* line 306: the end of the live range of a clause read at step i
LastUseEndEarly(i) == i
LastUseEnd(i) == i + 1

\* lines 293-310: ranges[id] = <<first, second>>, built walking the tape
\* from rbegin; i is the number of clauses already visited
RECURSIVE Ranges(_, _, _)
Ranges(t, i, r) ==
    IF i = Len(t) THEN r
    ELSE LET c == t[Len(t) - i]
             r1 == [r EXCEPT ![c.id] = <<i, i + 1>>]
             r2 == IF hasDummyChildren(c.op) THEN r1
                   ELSE LET ra == [r1 EXCEPT ![c.a] = <<r1[c.a][1], LastUseEnd(i)>>]
                        IN  [ra EXCEPT ![c.b] = <<ra[c.b][1], LastUseEnd(i)>>]
         IN  Ranges(t, i + 1, r2)

SetMin(S) == CHOOSE x \in S : \A y \in S : x <= y

\* lines 312-357: the walk over reg_ops, sorted by (position, DROP < LOAD).
\* active holds the clause ids that own a slot, assigned the slot of each.
RECURSIVE SlotWalk(_, _, _, _, _, _)
SlotWalk(r, n, pos, active, inactive, assigned) ==
    IF pos > n THEN assigned
    ELSE LET drops == {id \in 1..n : r[id][2] = pos}
             act1 == active \ drops
             inact1 == inactive \cup {assigned[id] : id \in drops}
             loads == {id \in 1..n : r[id][1] = pos}
         IN  IF loads = {} THEN SlotWalk(r, n, pos + 1, act1, inact1, assigned)
             ELSE LET id == CHOOSE x \in loads : TRUE
                      chosen == IF inact1 # {} THEN SetMin(inact1)
                                ELSE Cardinality(act1)
                  IN  SlotWalk(r, n, pos + 1, act1 \cup {id},
                               inact1 \ {chosen},
                               [assigned EXCEPT ![id] = chosen])

\* lines 358-362: tape->m, indexed by clause id (m[0] is the resize default)
assignSlots(t) ==
    LET n == Len(t)
        r == Ranges(t, 0, [id \in 0..n |-> <<0, 0>>])
    IN  SlotWalk(r, n, 0, {}, {}, [id \in 0..n |-> 0])

(***************************************************************************)
(* Tape::push, lines 158-199: the walk that fills disabled and remap.      *)
(***************************************************************************)
\* the answers a classifier may give for a clause: lines 189-192 restrict
\* oracle, var and constant clauses to KEEP_BOTH and KEEP_ALWAYS
KeepFor(op) == IF op \in LeafOps THEN {"KEEP_BOTH", "KEEP_ALWAYS"} ELSE Keep

\* the answers of the interval evaluator's classifier: a choice for MIN and
\* MAX, KEEP_ALWAYS for every other clause
IntervalKeepFor(op) ==
    IF op \in BinaryOps THEN {"KEEP_A", "KEEP_B", "KEEP_BOTH"} ELSE {"KEEP_ALWAYS"}

\* lines 170-198 for one clause; st = [disabled, remap, has_choices]
PushStepBoth(c, keep, st) ==
    IF st.disabled[c.id] THEN st
    ELSE LET r1 == CASE keep = "KEEP_A" -> [st.remap EXCEPT ![c.id] = c.a]
                     [] keep = "KEEP_B" -> [st.remap EXCEPT ![c.id] = c.b]
                     [] OTHER -> st.remap
             hc == st.has_choices \/ keep = "KEEP_BOTH"
             d1 == IF hasDummyChildren(c.op) THEN st.disabled
                   ELSE [st.disabled EXCEPT ![c.a] = FALSE, ![c.b] = FALSE]
             d2 == IF r1[c.id] # 0 THEN [d1 EXCEPT ![c.id] = TRUE] ELSE d1
         IN  [disabled |-> d2, remap |-> r1, has_choices |-> hc]
PushStep(c, keep, st) ==
    IF st.disabled[c.id] THEN st
    ELSE LET d1 == CASE keep = "KEEP_A" -> [st.disabled EXCEPT ![c.a] = FALSE]
                     [] keep = "KEEP_B" -> [st.disabled EXCEPT ![c.b] = FALSE]
                     [] OTHER -> st.disabled
             r1 == CASE keep = "KEEP_A" -> [st.remap EXCEPT ![c.id] = c.a]
                     [] keep = "KEEP_B" -> [st.remap EXCEPT ![c.id] = c.b]
                     [] OTHER -> st.remap
             hc == st.has_choices \/ keep = "KEEP_BOTH"
             d2 == IF r1[c.id] # 0 THEN [d1 EXCEPT ![c.id] = TRUE]
                   ELSE IF ~hasDummyChildren(c.op)
                   THEN [d1 EXCEPT ![c.a] = FALSE, ![c.b] = FALSE]
                   ELSE d1
         IN  [disabled |-> d2, remap |-> r1, has_choices |-> hc]

\* lines 168-199 under every classifier: S holds the marks reached before
\* clause k; a clause that is disabled asks the classifier nothing
RECURSIVE PushWalk(_, _, _, _)
PushWalk(t, interval, k, S) ==
    IF k > Len(t) THEN S
    ELSE PushWalk(t, interval, k + 1,
                  UNION {{PushStep(t[k], keep, st) :
                             keep \in IF st.disabled[t[k].id] THEN {"KEEP_ALWAYS"}
                                      ELSE IF interval THEN IntervalKeepFor(t[k].op)
                                      ELSE KeepFor(t[k].op)} : st \in S})

\* lines 160-166, then the walk: the marks push can end with on tape t
PushMarks(t, interval, nc) ==
    PushWalk(t, interval, 1,
             {[disabled |-> [i \in 0..(nc - 1) |-> i # t[1].id],
               remap |-> [i \in 0..(nc - 1) |-> 0],
               has_choices |-> FALSE]})

(***************************************************************************)
(* Tape::push, lines 226-246: the new clause vector.                       *)
(***************************************************************************)
\* lines 241-242: follow the remap chain until it ends
FollowOnce(rm, x) == IF rm[x] = 0 THEN x ELSE rm[x]
RECURSIVE Follow(_, _)
Follow(rm, x) == IF rm[x] = 0 THEN x ELSE Follow(rm, rm[x])

\* lines 234-244
EmitClause(c, rm) ==
    IF c.op = "ORACLE" THEN c
    ELSE [op |-> c.op, id |-> c.id, a |-> Follow(rm, c.a), b |-> Follow(rm, c.b)]

\* tape->t.push_back
EmitPrepend(out, c) == <<c>> \o out
EmitAppend(out, c) == Append(out, c)

RECURSIVE Emit(_, _, _, _, _)
Emit(t, k, dis, rm, out) ==
    IF k > Len(t) THEN out
    ELSE Emit(t, k + 1, dis, rm,
              IF dis[t[k].id] THEN out ELSE EmitAppend(out, EmitClause(t[k], rm)))

(***************************************************************************)
(* State.                                                                  *)
(*   tapes, tape     Tape::tapes and the cursor Tape::tape (1 = begin())   *)
(*   num_clauses, disabled, remap   the members of the same names          *)
(*   handles         the Tape::Handle objects, by slot                     *)
(*   order           the slots that hold a disposal, oldest first          *)
(*   last, snap      the last operation, and the cursor and Subtape it     *)
(*                   started from when it was a push                       *)
(*   failed          an assert of tape.cpp has fired                       *)
(*   nops            the number of tape operations made so far             *)
(*   depth           the deepest nesting of pushes reached so far          *)
(*   nodes           the SimplexTree cells of the build, by path from the  *)
(*                   root                                                  *)
(*   subs            the SimplexLeafSubspace objects taken from the pool   *)
(*   pool            how many tree nodes and leaves are taken from the     *)
(*                   pools                                                 *)
(*   calls           per cell, what each collectChildren call returned     *)
(*   abort           the abort flag of the build                           *)
(*   merged          the cell and the QEF error of the merge just tried    *)
(*   ret             what the evalInterval call just made was given and    *)
(*                   which tape handle it returned                         *)
(*   sums            the QEF sums of a merge in N = sums.n dimensions: the *)
(*                   loop variables i and j of collectChildren and, per    *)
(*                   subspace of the parent, the <<child, subspace>> pairs *)
(*                   whose QEF was added to it, in order                   *)
(*   unrolled        one call of the Unroller on a leaf of unrolled.n      *)
(*                   dimensions: the subspaces marked already_solved,      *)
(*                   whether the call was made, and the vertex of every    *)
(*                   subspace, a coordinate being <<"old", k, i>> (what it *)
(*                   was), <<"lower", i, 0>>, <<"upper", i, 0>> (a bound   *)
(*                   of the region) or <<"sol", k, j>> (sol.position(j)    *)
(*                   of the solve for subspace k)                          *)
(*   walked          the walk or rwalk just made: the flag it was given,   *)
(*                   the callbacks that set it, the clauses the callback   *)
(*                   was called with, the flag and the value it returned   *)
(***************************************************************************)
VARIABLES tapes, tape, num_clauses, disabled, remap,
          handles, order, last, snap, failed, nops, depth,
          nodes, subs, pool, calls, abort, merged, ret, walked, sums, unrolled

tapeVars == <<tapes, tape, num_clauses, disabled, remap>>
handleVars == <<handles, order, last, snap, failed, nops, depth>>
treeVars == <<nodes, subs, pool, calls, abort, merged, ret>>
vars == <<tapes, tape, num_clauses, disabled, remap,
          handles, order, last, snap, failed, nops, depth,
          nodes, subs, pool, calls, abort, merged, ret, walked, sums,
          unrolled>>

\* one more tape operation, within the budget of the run
Step == nops < MaxOps /\ nops' = nops + 1 /\ UNCHANGED <<treeVars, walked, sums, unrolled>>

\* the regions and points handed to push and getBase, and the push types
Regions ==
    {[lower |-> <<0, 0, 0>>, upper |-> <<2, 2, 2>>],
     [lower |-> <<0, 0, 0>>, upper |-> <<1, 1, 1>>]}
Points == {<<0, 0, 0>>, <<1, 1, 1>>, <<2, 2, 2>>}
PushTypes == {"INTERVAL", "SPECIALIZED"}

\* Subtape(), as pushed at line 79 and inserted at line 208
Subtape0 ==
    [t |-> << >>, type |-> "BASE", dummy |-> 0,
     X |-> <<0, 0>>, Y |-> <<0, 0>>, Z |-> <<0, 0>>, m |-> << >>]

\* Handle(): no tape, nothing to dispose
NoHandle == [alive |-> FALSE, type |-> "NONE", prev |-> 0]
NoOp == [op |-> "init", h |-> 0, src |-> 0, ty |-> "NONE", pops |-> 0,
         afterPush |-> FALSE, p |-> << >>, hc |-> FALSE]
NoSnap == [tape |-> 0, sub |-> Subtape0]

Slots == 1..MaxHandles
FreeSlots == {h \in Slots : ~handles[h].alive}
LiveSlots == {h \in Slots : handles[h].alive}

\* Tape::Tape, lines 78-94
InitTape(flat) ==
    /\ tapes = <<[Subtape0 EXCEPT !.t = BaseClauses(flat),
                                  !.m = assignSlots(BaseClauses(flat))]>>
    /\ tape = 1
    /\ num_clauses = Len(flat) + 1
    /\ disabled = [i \in 0..Len(flat) |-> FALSE]
    /\ remap = [i \in 0..Len(flat) |-> 0]

\* no evalInterval call was just made
NoRet ==
    [op |-> "none", c |-> << >>, state |-> "UNKNOWN", safe |-> TRUE,
     tape |-> "none"]

\* no walk was made
NoWalk ==
    [op |-> "none", start |-> FALSE, sets |-> {}, fn |-> << >>,
     abort |-> FALSE, id |-> 0]

HandlesIdle ==
    /\ walked = NoWalk
    /\ handles = [h \in Slots |-> NoHandle]
    /\ order = << >>
    /\ last = NoOp
    /\ snap = NoSnap
    /\ failed = FALSE
    /\ nops = 0
    /\ depth = 0

\* no tree is being built
TreeIdle ==
    /\ nodes = << >>
    /\ subs = << >>
    /\ pool = [nodes |-> 0, leaves |-> 0]
    /\ calls = << >>
    /\ abort = FALSE
    /\ merged = << >>
    /\ ret = NoRet

\* no QEF is being summed
NoSums == [n |-> 0, i |-> 0, j |-> 0, qef |-> << >>]
\* no Unroller call is made
NoUnroll == [n |-> 0, solved |-> {}, done |-> FALSE, vert |-> << >>]
MergeIdle == sums = NoSums /\ unrolled = NoUnroll

InitRest == HandlesIdle /\ TreeIdle /\ MergeIdle

(***************************************************************************)
(* Tape::push, lines 146-257; st holds the marks its walk ended with.  The  *)
(* returned Handle(this) is bound to the free slot h.                      *)
(***************************************************************************)
\* line 224
DummyOfNone(hc) == 0
DummyOf(hc) == IF hc THEN 0 ELSE 1

\* lines 201-254: the Subtape the cursor ends on
PushedSubtape(old, clauses, ty, hc, r) ==
    [t |-> clauses, type |-> ty, dummy |-> DummyOf(hc),
     X |-> <<r.lower[1], r.upper[1]>>,
     Y |-> <<r.lower[2], r.upper[2]>>,
     Z |-> <<r.lower[3], r.upper[3]>>,
     m |-> old.m]

\* lines 206-216: the new Subtape is inserted at the end or takes the place
\* of the one above the cursor
PlacedInserted(ts, k, new) ==
    SubSeq(ts, 1, k - 1) \o <<new>> \o SubSeq(ts, k, Len(ts))
Placed(ts, k, new) ==
    IF k > Len(ts) THEN Append(ts, new) ELSE [ts EXCEPT ![k] = new]

\* the pushes whose Handle has not been destroyed
Nesting == Cardinality({x \in Slots : handles[x].type = "PUSH"})

Push(h, st, ty, r) ==
    /\ ~failed
    /\ Step
    /\ depth' = IF Nesting + 1 > depth THEN Nesting + 1 ELSE depth
    /\ h \in FreeSlots
    /\ handles' = [handles EXCEPT ![h] = [alive |-> TRUE, type |-> "PUSH", prev |-> 0]]
    /\ order' = Append(order, h)
    /\ last' = [NoOp EXCEPT !.op = "push", !.h = h,
                            !.hc = (tapes[tape].dummy = 0 /\ st.has_choices)]
    /\ snap' = [tape |-> tape, sub |-> tapes[tape]]
    /\ failed' = FALSE
    /\ IF tapes[tape].dummy # 0
       THEN \* lines 152-156
            /\ tapes' = [tapes EXCEPT ![tape].dummy = @ + 1]
            /\ UNCHANGED <<tape, num_clauses, disabled, remap>>
       ELSE LET clauses == Emit(tapes[tape].t, 1, st.disabled, st.remap, << >>)
                old == IF tape + 1 > Len(tapes) THEN Subtape0 ELSE tapes[tape + 1]
                new == PushedSubtape(old, clauses, ty, st.has_choices, r)
            IN  /\ disabled' = st.disabled
                /\ remap' = st.remap
                /\ tape' = tape + 1
                /\ tapes' = Placed(tapes, tape + 1, new)
                /\ UNCHANGED num_clauses

(***************************************************************************)
(* Tape::getBase, lines 259-281.  The returned Handle(this, prev_tape) is  *)
(* bound to the free slot h.                                               *)
(***************************************************************************)
\* lines 267-270
BoxContainsStrict(s, p) ==
    /\ p[1] > s.X[1] /\ p[1] < s.X[2]
    /\ p[2] > s.Y[1] /\ p[2] < s.Y[2]
    /\ p[3] > s.Z[1] /\ p[3] < s.Z[2]
BoxContains(s, p) ==
    /\ p[1] >= s.X[1] /\ p[1] <= s.X[2]
    /\ p[2] >= s.Y[1] /\ p[2] <= s.Y[2]
    /\ p[3] >= s.Z[1] /\ p[3] <= s.Z[2]

\* lines 265-278: where the loop leaves the cursor
RECURSIVE BaseOf(_, _, _)
BaseOf(ts, k, p) ==
    IF k = 1 THEN 1
    ELSE IF ts[k].type = "INTERVAL" /\ BoxContains(ts[k], p) THEN k
    ELSE BaseOf(ts, k - 1, p)

GetBase(h, p) ==
    /\ ~failed
    /\ Step
    /\ h \in FreeSlots
    /\ tape' = BaseOf(tapes, tape, p)
    /\ handles' = [handles EXCEPT ![h] = [alive |-> TRUE, type |-> "BASE", prev |-> tape]]
    /\ order' = Append(order, h)
    /\ last' = [NoOp EXCEPT !.op = "getBase", !.h = h, !.p = p]
    /\ snap' = NoSnap
    /\ UNCHANGED <<tapes, num_clauses, disabled, remap, failed, depth>>

(***************************************************************************)
(* Tape::Handle, lines 368-392.                                            *)
(***************************************************************************)
Without(sq, h) == SelectSeq(sq, LAMBDA x : x # h)
Renamed(sq, from, to) == [i \in 1..Len(sq) |-> IF sq[i] = from THEN to ELSE sq[i]]

\* lines 381 and 390: what the move leaves in other.type
MovedFromKept(ty) == ty
MovedFrom(ty) == "NONE"

\* Handle(Handle&& other), lines 378-382: dst is a new object
MoveConstruct(src, dst) ==
    /\ ~failed
    /\ Step
    /\ src \in LiveSlots /\ dst \in FreeSlots
    /\ handles' = [handles EXCEPT
                      ![dst] = [alive |-> TRUE, type |-> handles[src].type,
                                prev |-> handles[src].prev],
                      ![src].type = MovedFrom(handles[src].type)]
    /\ order' = Renamed(order, src, dst)
    /\ last' = [NoOp EXCEPT !.op = "moveConstruct", !.h = dst, !.src = src,
                            !.ty = handles[src].type]
    /\ snap' = NoSnap
    /\ UNCHANGED <<tapeVars, failed, depth>>

\* operator=(Handle&& other), lines 384-392: dst is a live object
MoveAssign(src, dst) ==
    /\ ~failed
    /\ Step
    /\ src \in LiveSlots /\ dst \in LiveSlots /\ src # dst
    /\ handles' = [handles EXCEPT
                      ![dst] = [alive |-> TRUE, type |-> handles[src].type,
                                prev |-> handles[src].prev],
                      ![src].type = MovedFrom(handles[src].type)]
    /\ order' = Renamed(Without(order, dst), src, dst)
    /\ last' = [NoOp EXCEPT !.op = "moveAssign", !.h = dst, !.src = src,
                            !.ty = handles[src].type]
    /\ snap' = NoSnap
    /\ UNCHANGED <<tapeVars, failed, depth>>

\* Handles leave scope in reverse order of acquisition: a Handle that holds
\* a disposal is destroyed only when it holds the youngest one
MayDestroy(h) ==
    /\ h \in LiveSlots
    /\ handles[h].type # "NONE" => (order # << >> /\ order[Len(order)] = h)

\* Tape::utilization, lines 120-123: the quotient, as <<dividend, divisor>>
utilizationOfBase(ts, k) == <<Len(ts[1].t), Len(ts[k].t)>>
utilization(ts, k) == <<Len(ts[k].t), Len(ts[1].t)>>

\* Tape::pop, lines 106-118, past its assert
PopTapes == IF tapes[tape].dummy > 1
            THEN [tapes EXCEPT ![tape].dummy = @ - 1] ELSE tapes
PopCursorStays == tape
PopCursor == IF tapes[tape].dummy > 1 THEN tape ELSE tape - 1

\* ~Handle, lines 368-376
Destroy(h) ==
    /\ ~failed
    /\ Step
    /\ MayDestroy(h)
    /\ handles' = [handles EXCEPT ![h] = NoHandle]
    /\ order' = Without(order, h)
    /\ UNCHANGED <<num_clauses, disabled, remap, depth>>
    /\ CASE handles[h].type = "NONE" ->
              /\ last' = [NoOp EXCEPT !.op = "destroy", !.h = h]
              /\ snap' = NoSnap
              /\ UNCHANGED <<tapes, tape, failed>>
         [] handles[h].type = "BASE" ->
              /\ tape' = handles[h].prev
              /\ last' = [NoOp EXCEPT !.op = "destroy", !.h = h, !.ty = "BASE"]
              /\ snap' = NoSnap
              /\ UNCHANGED <<tapes, failed>>
         [] handles[h].type = "PUSH" /\ tape # 1 ->
              /\ tapes' = PopTapes
              /\ tape' = PopCursor
              /\ last' = [NoOp EXCEPT !.op = "destroy", !.h = h, !.ty = "PUSH",
                                      !.pops = 1,
                                      !.afterPush = (last.op = "push")]
              /\ snap' = IF last.op = "push" THEN snap ELSE NoSnap
              /\ UNCHANGED failed
         [] handles[h].type = "PUSH" /\ tape = 1 ->
              \* line 108: assert(tape != tapes.begin())
              /\ failed' = TRUE
              /\ last' = [NoOp EXCEPT !.op = "destroy", !.h = h, !.ty = "PUSH"]
              /\ snap' = NoSnap
              /\ UNCHANGED <<tapes, tape>>

NextFree == IF FreeSlots = {} THEN 0 ELSE SetMin(FreeSlots)

(***************************************************************************)
(* SpecPush: one or two nested pushes, with any classifier the comment at   *)
(* lines 189-192 allows, over every flattened tree of up to MaxNodes nodes. *)
(***************************************************************************)
SmallRegion == CHOOSE r \in Regions : r.upper = <<1, 1, 1>>

InitPush == (\E flat \in FlatTrees(MaxNodes) : InitTape(flat)) /\ InitRest

NextPush ==
    \/ \E st \in PushMarks(tapes[tape].t, FALSE, num_clauses) :
          tape <= PushDepth /\ Push(NextFree, st, "INTERVAL", SmallRegion)
    \/ \E h \in Slots : Destroy(h)

SpecPush == InitPush /\ [][NextPush]_vars

(***************************************************************************)
(* SpecTape: runs of push, getBase and Handle destruction, the classifier   *)
(* being the interval evaluator's.                                          *)
(***************************************************************************)
InitStack == (\E flat \in FlatTrees(StackNodes) : InitTape(flat)) /\ InitRest

NextStack ==
    \/ \E st \in PushMarks(tapes[tape].t, TRUE, num_clauses),
          ty \in PushTypes, r \in Regions :
          Push(NextFree, st, ty, r)
    \/ \E p \in Points : GetBase(NextFree, p)
    \/ \E h \in Slots : Destroy(h)

SpecTape == InitStack /\ [][NextStack]_vars

(***************************************************************************)
(* SpecPayload: pushes on tapes of nine clauses, the minimum of x or        *)
(* constants or oracles at five places, under the interval evaluator's     *)
(* classifier.                                                             *)
(***************************************************************************)
\* root.ordered() of min(min(min(l1, l2), l4), min(l5, l6)), every l a
\* leaf
PayloadTrees ==
    LET L == [op : LeafOps, lhs : {0}, rhs : {0}]
        M(a, b) == [op |-> "MIN", lhs |-> a, rhs |-> b]
    IN  {f \in {<<l1, l2, M(1, 2), l4, l5, l6, M(3, 4), M(5, 6), M(7, 8)>> :
                    l1 \in L, l2 \in L, l4 \in L, l5 \in L, l6 \in L} :
            IsFlatTree(f)}

InitPayload == (\E flat \in PayloadTrees : InitTape(flat)) /\ InitRest

NextPayload ==
    \/ \E st \in PushMarks(tapes[tape].t, TRUE, num_clauses) :
          tape <= PushDepth /\ Push(NextFree, st, "INTERVAL", SmallRegion)
    \/ \E h \in Slots : Destroy(h)

SpecPayload == InitPayload /\ [][NextPayload]_vars

(***************************************************************************)
(* Tape::rwalk and Tape::walk, lines 125-144.                               *)
(***************************************************************************)
Reverse(s) == [i \in 1..Len(s) |-> s[Len(s) + 1 - i]]

\* the loops of lines 129-132 and 140-143 over the clauses cs, in the
\* order of the iterator: ab is the flag, fn the clauses the callback was
\* called with so far, and the callback sets the flag during the calls
\* whose numbers are in sets
RECURSIVE WalkUnpolled(_, _, _, _)
WalkUnpolled(cs, ab, sets, fn) ==
    IF cs = << >> THEN [fn |-> fn, abort |-> ab]
    ELSE WalkUnpolled(Tail(cs), ab \/ (Len(fn) + 1 \in sets), sets,
                      Append(fn, Head(cs)))
RECURSIVE WalkLoop(_, _, _, _)
WalkLoop(cs, ab, sets, fn) ==
    IF cs = << >> \/ ab THEN [fn |-> fn, abort |-> ab]
    ELSE WalkLoop(Tail(cs), ab \/ (Len(fn) + 1 \in sets), sets,
                  Append(fn, Head(cs)))

\* the callbacks that may set the flag
FlagSets == {{}} \cup {{k} : k \in 1..(StackNodes + 1)}

\* Tape::walk, lines 137-144
Walk(start, sets) ==
    /\ ~failed
    /\ LET r == WalkLoop(tapes[tape].t, start, sets, << >>)
       IN  walked' = [op |-> "walk", start |-> start, sets |-> sets,
                      fn |-> r.fn, abort |-> r.abort, id |-> 0]
    /\ UNCHANGED <<tapeVars, handleVars, treeVars, sums, unrolled>>

\* Tape::rwalk, lines 125-135
Rwalk(start, sets) ==
    /\ ~failed
    /\ Len(tapes[tape].t) > 0
    /\ LET r == WalkLoop(Reverse(tapes[tape].t), start, sets, << >>)
       IN  walked' = [op |-> "rwalk", start |-> start, sets |-> sets,
                      fn |-> r.fn, abort |-> r.abort,
                      id |-> tapes[tape].t[1].id]
    /\ UNCHANGED <<tapeVars, handleVars, treeVars, sums, unrolled>>

(***************************************************************************)
(* SpecWalk: walks of the current Subtape between pushes and pops.          *)
(***************************************************************************)
NextWalk ==
    \/ \E st \in PushMarks(tapes[tape].t, TRUE, num_clauses) :
          tape <= PushDepth /\ Push(NextFree, st, "INTERVAL", SmallRegion)
    \/ \E h \in Slots : Destroy(h)
    \/ \E start \in BOOLEAN, sets \in FlagSets : Walk(start, sets)
    \/ \E start \in BOOLEAN, sets \in FlagSets : Rwalk(start, sets)

SpecWalk == InitStack /\ [][NextWalk]_vars

(***************************************************************************)
(* SpecHandle: the same runs with the Handles moved between objects.        *)
(***************************************************************************)
InitHandle == (\E flat \in FlatTrees(HandleNodes) : InitTape(flat)) /\ InitRest

NextHandle ==
    \/ \E st \in PushMarks(tapes[tape].t, TRUE, num_clauses) :
          Push(NextFree, st, "INTERVAL", SmallRegion)
    \/ \E p \in Points : GetBase(NextFree, p)
    \/ \E src \in Slots : MoveConstruct(src, NextFree)
    \/ \E src, dst \in Slots : MoveAssign(src, dst)
    \/ \E h \in Slots : Destroy(h)

SpecHandle == InitHandle /\ [][NextHandle]_vars

(***************************************************************************)
(* Claims about the tape.                                                  *)
(***************************************************************************)
JustPushed == last.op = "push"
\* the last two operations were a push and the pop of its Handle
JustPushPopped == last.op = "destroy" /\ last.afterPush

\* C1: a push immediately followed by pop leaves the cursor on the Subtape it
\* was on before the push, and that Subtape's dummy counter and clauses as
\* they were, whether the push made a new Subtape or bumped the counter.
C1_PushPopRestores ==
    JustPushPopped =>
        /\ tape = snap.tape
        /\ tapes[tape].dummy = snap.sub.dummy
        /\ tapes[tape].t = snap.sub.t

\* a push that made a new Subtape under an earlier push, then popped
C1_Witness ==
    /\ JustPushPopped
    /\ snap.sub.dummy = 0
    /\ snap.tape > 1
    /\ tape = snap.tape

\* C2: once every Handle is destroyed the cursor is back where it was before
\* the first acquisition, at the base Subtape, however the Handles were moved.
C2_AllDisposalsEnforced ==
    (LiveSlots = {} /\ ~failed) => tape = 1

\* C3: moving a PUSH Handle leaves the source NONE and the destination PUSH;
\* destroying a NONE Handle calls pop zero times, a PUSH Handle exactly once.
C3_MoveTransfersPush ==
    /\ (last.op \in {"moveConstruct", "moveAssign"} /\ last.ty = "PUSH") =>
          /\ handles[last.src].type = "NONE"
          /\ handles[last.h].type = "PUSH"
    /\ Cardinality({h \in Slots : handles[h].type = "PUSH"})
          = Cardinality({i \in 1..Len(order) : handles[order[i]].type = "PUSH"})
    /\ \A h \in Slots : handles[h].type # "NONE" =>
          \E i \in 1..Len(order) : order[i] = h

\* a PUSH Handle was move-assigned into another live Handle
C3_Witness ==
    /\ last.op = "moveAssign"
    /\ last.ty = "PUSH"
    /\ handles[last.h].type = "PUSH"

RECURSIVE IsSubseq(_, _)
IsSubseq(s, t) ==
    IF s = << >> THEN TRUE
    ELSE IF t = << >> THEN FALSE
    ELSE IF Head(s) = Head(t) THEN IsSubseq(Tail(s), Tail(t))
    ELSE IsSubseq(s, Tail(t))

IdOps(t) == [k \in 1..Len(t) |-> <<t[k].id, t[k].op>>]

\* C4: after a push that makes a new Subtape, its clauses are, by id and
\* opcode, a subsequence of the previous Subtape's clauses in the same
\* order, so it is never longer.
C4_PushedIsSubsequence ==
    (JustPushed /\ snap.sub.dummy = 0) =>
        /\ tape = snap.tape + 1
        /\ IsSubseq(IdOps(tapes[tape].t), IdOps(snap.sub.t))
        /\ Len(tapes[tape].t) <= Len(snap.sub.t)

\* a push that dropped a clause and kept at least two
C4_Witness ==
    /\ JustPushed /\ snap.sub.dummy = 0
    /\ Len(tapes[tape].t) < Len(snap.sub.t)
    /\ Len(tapes[tape].t) >= 2

\* the positions of the clause with the given id in a clause vector
PosOf(t, id) == {k \in 1..Len(t) : t[k].id = id}

Operands(c) == IF hasDummyChildren(c.op) THEN {} ELSE {c.a, c.b} \ {0}

\* C5, as claimed: in every Subtape each operand of a clause appears EARLIER
\* than the clause in the forward order of Tape::walk.
C5_OperandsEarlier ==
    \A s \in 1..Len(tapes) : \A k \in 1..Len(tapes[s].t) :
        \A x \in Operands(tapes[s].t[k]) :
            \E j \in PosOf(tapes[s].t, x) : j < k

\* C5, amended: in every Subtape each operand of a clause appears LATER than
\* the clause in the forward order of Tape::walk (earlier in Tape::rwalk's).
C5_OperandsLater ==
    \A s \in 1..Len(tapes) : \A k \in 1..Len(tapes[s].t) :
        \A x \in Operands(tapes[s].t[k]) :
            \E j \in PosOf(tapes[s].t, x) : j > k

\* a pushed Subtape holding a clause whose operand was remapped
C5_Witness ==
    /\ JustPushed /\ snap.sub.dummy = 0
    /\ \E k \in 1..Len(tapes[tape].t) :
          /\ Operands(tapes[tape].t[k]) # {}
          /\ tapes[tape].t[k] \notin {snap.sub.t[j] : j \in 1..Len(snap.sub.t)}

\* the step of the evaluation (Tape::rwalk's order, the one assignSlots
\* numbers) at which the clause at position k of t is computed
StepOf(t, k) == Len(t) - k
\* the last step at which the clause with the given id is read
LastRead(t, k) ==
    LET readers == {j \in 1..Len(t) : t[k].id \in Operands(t[j])}
    IN  IF readers = {} THEN StepOf(t, k)
        ELSE CHOOSE x \in {StepOf(t, j) : j \in readers} :
                 \A j \in readers : StepOf(t, j) <= x
LiveAt(t, k, step) == StepOf(t, k) <= step /\ step <= LastRead(t, k)

\* C6: in the slot map of the base tape no two clauses live at the same step
\* of the evaluation hold the same slot; a clause never holds the slot of
\* one of its operands.
C6_NoSlotClash ==
    LET t == tapes[1].t
        m == tapes[1].m
    IN  /\ \A step \in 0..(Len(t) - 1) : \A j, k \in 1..Len(t) :
              (j # k /\ LiveAt(t, j, step) /\ LiveAt(t, k, step))
                  => m[t[j].id] # m[t[k].id]
        /\ \A k \in 1..Len(t) : \A x \in Operands(t[k]) : m[x] # m[t[k].id]

\* a base tape on which a slot is used again by a later clause
C6_Witness ==
    LET t == tapes[1].t
        m == tapes[1].m
    IN  \E j, k \in 1..Len(t) :
            /\ j # k /\ m[t[j].id] = m[t[k].id]
            /\ Operands(t[j]) # {}

(***************************************************************************)
(* The simplex tree: SimplexTree<N>, SimplexLeaf<N> and                     *)
(* SimplexLeafSubspace<N> of simplex_tree.cpp, with the object pools and    *)
(* the build loop that drive them.  A cell is named by its path from the    *)
(* root: the sequence of its ancestors' parent_index values and its own.    *)
(***************************************************************************)
\* the dimension the templates are instantiated with
N == 1
\* the level of the root region; regions at level 0 are not subdivided
MaxLevel == 2

RECURSIVE Pow(_, _)
Pow(b, e) == IF e = 0 THEN 1 ELSE b * Pow(b, e - 1)

\* the child slots of a cell, 1 << N of them, and the subspaces of a leaf,
\* ipow(3, N) of them
Children == 0..(Pow(2, N) - 1)
Subspaces == 0..(Pow(3, N) - 1)
Axes == 0..(N - 1)

Cells == UNION {[1..n -> Children] : n \in 0..MaxLevel}
Root == << >>
Level(c) == MaxLevel - Len(c)
Parent(c) == SubSeq(c, 1, Len(c) - 1)
ParentIndex(c) == c[Len(c)]
Child(c, i) == Append(c, i)

Types == {"EMPTY", "FILLED", "AMBIGUOUS"}

\* a sub[] slot holding nullptr
NullSub == << >>
\* this->leaf == nullptr, and a leaf fresh from the pool (SimplexLeaf::reset,
\* lines 61-68)
NullLeaf == [null |-> TRUE, level |-> 0, sub |-> [i \in Subspaces |-> NullSub]]
FreshLeaf == [NullLeaf EXCEPT !.null = FALSE]

\* what XTree's pending counter starts from in a cell that was subdivided
PendingInit == Pow(2, N) - 1

\* a tree node that is in its pool, and one just taken from it
NoNode ==
    [phase |-> "absent", type |-> "UNKNOWN", leaf |-> NullLeaf,
     children |-> {}, pending |-> 0]
NewNode == [NoNode EXCEPT !.phase = "todo", !.pending = PendingInit]

\* SimplexLeafSubspace::reset, lines 43-51
\* qef holds the cells whose corner samples were inserted in the QEF, vert
\* the cell whose Unroller call placed the vertex
ResetSub ==
    [refcount |-> 0, inside |-> FALSE, index |-> 0, qef |-> {}, vert |-> {}]

\* the three kinds of object the pools hand out, as one value
Heap == [nodes |-> nodes, subs |-> subs, pool |-> pool]

\* XTree::isBranch
isBranch(h, c) == 0 \in h.nodes[c].children

\* ObjectPool::get of a subspace: an object that is in nobody's hands,
\* reset.  The object is named by the leaf slot it is taken for.
GetSub(ss, c, i) == ss @@ (<<c, i>> :> ResetSub)
\* ObjectPool::put of a subspace
PutSub(ss, id) == [j \in DOMAIN ss \ {id} |-> ss[j]]

\* object_pool.next().get(&this->leaf), lines 199, 319 and 369
GetLeaf(h, c, level) ==
    [h EXCEPT !.nodes[c].leaf = [FreshLeaf EXCEPT !.level = level],
              !.pool.leaves = @ + 1]

(***************************************************************************)
(* SimplexNeighbors: the digits of a NeighborIndex in base 3 say, axis by   *)
(* axis, whether the subspace is fixed low (0), fixed high (1) or floating  *)
(* (2); two cells of one level own the same subspace when it lies at the    *)
(* same place.                                                             *)
(***************************************************************************)
Digit(j, d) == (j \div Pow(3, d)) % 3
Bit(i, d) == (i \div Pow(2, d)) % 2

RECURSIVE Coord(_, _)
Coord(c, d) ==
    IF c = << >> THEN 0 ELSE 2 * Coord(Parent(c), d) + Bit(ParentIndex(c), d)

Place(c, j) ==
    [d \in Axes |-> IF Digit(j, d) = 2 THEN <<2, Coord(c, d)>>
                    ELSE <<0, Coord(c, d) + Digit(j, d)>>]

\* the finished cells of c's level that hold a leaf
Visible(h, c) ==
    {n \in Cells : /\ Len(n) = Len(c) /\ n # c
                   /\ h.nodes[n].phase \in {"arrive", "joined"}
                   /\ ~h.nodes[n].leaf.null}

\* SimplexNeighbors::check for every NeighborIndex: the subspace a cell of
\* seen holds at the same place, or 0
NoNeighbors == [i \in Subspaces |-> NullSub]
Check(h, c, seen) ==
    [i \in Subspaces |->
        LET owners == {x \in seen \X Subspaces : Place(x[1], x[2]) = Place(c, i)}
        IN  IF owners = {} THEN NullSub
            ELSE LET x == CHOOSE x \in owners : TRUE
                 IN  h.nodes[x[1]].leaf.sub[x[2]]]

(***************************************************************************)
(* SimplexTree::findLeafVertices, lines 209-310.  found is what             *)
(* neighbors.check answers, signs what the evaluators say of each vertex.   *)
(***************************************************************************)
\* lines 225-234
RECURSIVE TakeSubs(_, _, _, _, _)
TakeSubs(ss, c, found, i, sub) ==
    IF i \notin Subspaces THEN [subs |-> ss, sub |-> sub]
    ELSE LET s0 == IF found[i] # NullSub THEN ss ELSE GetSub(ss, c, i)
             id == IF found[i] # NullSub THEN found[i] ELSE <<c, i>>
         IN  TakeSubs([s0 EXCEPT ![id].refcount = @ + 1], c, found, i + 1,
                      [sub EXCEPT ![i] = id])

\* SimplexTree::saveVertexSigns, lines 521-553
saveVertexSigns(ss, sub, solved, signs) ==
    [id \in DOMAIN ss |->
        IF \E i \in Subspaces : sub[i] = id /\ ~solved[i]
        THEN [ss[id] EXCEPT !.inside =
                 signs[CHOOSE i \in Subspaces : sub[i] = id /\ ~solved[i]]]
        ELSE ss[id]]

\* lines 301-309
SetSignsSolved(ss, sub, found, type, signs) ==
    saveVertexSigns(ss, sub, [i \in Subspaces |-> found[i] # NullSub], signs)
SetSigns(ss, sub, found, type, signs) ==
    IF type = "AMBIGUOUS"
    THEN saveVertexSigns(ss, sub, [i \in Subspaces |-> found[i] # NullSub], signs)
    ELSE [id \in DOMAIN ss |->
             IF \E i \in Subspaces : sub[i] = id
             THEN [ss[id] EXCEPT !.inside = (type = "FILLED")]
             ELSE ss[id]]

\* CornerIndex::neighbor: the subspaces that are corners
isCorner(j) == \A d \in Axes : Digit(j, d) # 2

\* lines 253-292: the corners that are not already solved are sampled and
\* the samples inserted in the QEF of the corner's subspace
SampleCornersAll(ss, c, sub, found) ==
    [id \in DOMAIN ss |->
        IF \E i \in Subspaces : sub[i] = id /\ isCorner(i)
        THEN [ss[id] EXCEPT !.qef = @ \cup {c}]
        ELSE ss[id]]
SampleCorners(ss, c, sub, found) ==
    [id \in DOMAIN ss |->
        IF \E i \in Subspaces :
              sub[i] = id /\ isCorner(i) /\ found[i] = NullSub
        THEN [ss[id] EXCEPT !.qef = @ \cup {c}]
        ELSE ss[id]]

\* lines 296 and 495: the Unroller places the vertex of every subspace of
\* the leaf of cell c that is not marked in solved
PlaceVerts(ss, c, sub, solved) ==
    [id \in DOMAIN ss |->
        IF \E i \in Subspaces : sub[i] = id /\ ~solved[i]
        THEN [ss[id] EXCEPT !.vert = {c}]
        ELSE ss[id]]

findLeafVertices(h, c, found, signs) ==
    LET t == TakeSubs(h.subs, c, found, 0, h.nodes[c].leaf.sub)
        s1 == SampleCorners(t.subs, c, t.sub, found)
        s2 == PlaceVerts(s1, c, t.sub,
                         [i \in Subspaces |-> found[i] # NullSub])
    IN  [h EXCEPT !.nodes[c].leaf.sub = t.sub,
                  !.subs = SetSigns(s2, t.sub, found, h.nodes[c].type, signs)]

\* SimplexTree::checkVertexSigns, lines 555-578
checkVertexSigns(h, c) ==
    LET ins == {h.subs[h.nodes[c].leaf.sub[i]].inside : i \in Subspaces}
    IN  [h EXCEPT !.nodes[c].type = IF ins = {TRUE} THEN "FILLED"
                                    ELSE IF ins = {FALSE} THEN "EMPTY"
                                    ELSE "AMBIGUOUS"]

(***************************************************************************)
(* Release.                                                                *)
(***************************************************************************)
\* SimplexLeaf::releaseTo, lines 70-80: the loop over sub.  A count that is
\* 0 when it is decremented does not become 0, whatever its width.
RECURSIVE ReleaseSubs(_, _, _)
ReleaseSubs(ss, sub, i) ==
    IF i \notin Subspaces THEN ss
    ELSE LET id == sub[i]
             r == ss[id].refcount - 1
         IN  ReleaseSubs(IF r = 0 THEN PutSub(ss, id)
                         ELSE [ss EXCEPT ![id].refcount = r],
                         sub, i + 1)

\* SimplexLeaf::releaseTo, lines 70-80, on the leaf of cell c
LeafReleaseTo(h, c) ==
    [h EXCEPT !.subs = ReleaseSubs(h.subs, h.nodes[c].leaf.sub, 0),
              !.nodes[c].leaf.sub = NullLeaf.sub,
              !.pool.leaves = @ - 1]

\* SimplexTree::releaseTo, lines 712-719
TreeReleaseTo(h, c) ==
    LET h1 == IF ~h.nodes[c].leaf.null
              THEN [LeafReleaseTo(h, c) EXCEPT !.nodes[c].leaf = NullLeaf]
              ELSE h
    IN  [h1 EXCEPT !.nodes[c] = NoNode, !.pool.nodes = @ - 1]

\* XTree::releaseChildren: every child slot is emptied and its cell released
RECURSIVE ReleaseSlots(_, _, _)
ReleaseSlots(h, p, i) ==
    IF i \notin Children THEN h
    ELSE ReleaseSlots(IF i \in h.nodes[p].children
                      THEN [TreeReleaseTo(h, Child(p, i))
                               EXCEPT !.nodes[p].children = @ \ {i}]
                      ELSE h,
                      p, i + 1)
releaseChildren(h, p) == ReleaseSlots(h, p, 0)

\* the release of a whole tree: every cell taken from the pool goes back,
\* the deepest first
RECURSIVE ReleaseCells(_, _)
ReleaseCells(h, S) ==
    IF S = {} THEN h
    ELSE LET c == CHOOSE x \in S : \A y \in S : Len(y) <= Len(x)
         IN  ReleaseCells(TreeReleaseTo(h, c), S \ {c})
ReleaseTree(h) ==
    ReleaseCells(h, {c \in Cells : h.nodes[c].phase # "absent"})

\* XTree::done: the cell is published in its parent's child slot; its worker
\* goes on to call the parent's collectChildren
done(h, c) ==
    IF c = Root THEN [h EXCEPT !.nodes[c].phase = "joined"]
    ELSE [h EXCEPT !.nodes[c].phase = "arrive",
                   !.nodes[Parent(c)].children = @ \cup {ParentIndex(c)}]

(***************************************************************************)
(* The build.  A cell is "todo" while its task waits, "wait" once it was    *)
(* subdivided, "arrive" when done() has run and its worker is about to call *)
(* the parent's collectChildren, "joined" once that call was made, and      *)
(* "merging" while the call that passed the pending check is at work.       *)
(***************************************************************************)
TreeStep == UNCHANGED <<tapeVars, handleVars, walked, sums, unrolled>>

Store(h) ==
    /\ nodes' = h.nodes
    /\ subs' = h.subs
    /\ pool' = h.pool

\* what the evaluators may say of the vertices of a leaf
Signs ==
    {[i \in Subspaces |-> TRUE], [i \in Subspaces |-> FALSE],
     [i \in Subspaces |-> i = Pow(3, N) - 1]}
NoSigns == [i \in Subspaces |-> FALSE]
\* already_solved as lines 493-494 fill it
NoneSolved == [i \in Subspaces |-> FALSE]

\* the build loop, on a cell found ambiguous: its children are taken from
\* the pool and their tasks queued
Subdivide(h, c) ==
    [h EXCEPT !.nodes = [x \in Cells |->
                            IF Len(x) = Len(c) + 1 /\ Parent(x) = c THEN NewNode
                            ELSE IF x = c THEN [h.nodes[c] EXCEPT !.phase = "wait"]
                            ELSE h.nodes[x]],
              !.pool.nodes = @ + Pow(2, N)]

\* lines 188-193: the type the cell gets, state being Interval::state of
\* the interval result and safe what isSafe() answers
StateOfResult(state, safe) == state
StateOf(state, safe) == IF safe THEN state ELSE "AMBIGUOUS"

\* lines 184-187, 192 and 204: the handle that is returned, the one
\* evalAndPush made ("pushed") or the one the caller passed ("caller")
Returned(safe) == IF safe THEN "pushed" ELSE "caller"

\* SimplexTree::evalInterval, lines 175-205, state being the state of the
\* interval result and safe what isSafe() answers
EvalInterval(c, state, safe) ==
    /\ ~abort
    /\ nodes[c].phase = "todo"
    /\ Level(c) > 0
    /\ LET ty == StateOf(state, safe)
           h0 == [Heap EXCEPT !.nodes[c].type = ty]
       IN  IF ty \in {"FILLED", "EMPTY"}
           THEN Store(done(findLeafVertices(GetLeaf(h0, c, Level(c)), c,
                                            NoNeighbors, NoSigns), c))
           ELSE Store(Subdivide(h0, c))
    /\ merged' = << >>
    /\ ret' = [op |-> "evalInterval", c |-> c, state |-> state, safe |-> safe,
               tape |-> Returned(safe)]
    /\ UNCHANGED <<calls, abort>>
    /\ TreeStep

\* SimplexTree::evalLeaf, lines 312-335; seen are the neighbours the task
\* is given, the finished cells beside it
EvalLeaf(c, seen, signs) ==
    /\ ~abort
    /\ nodes[c].phase = "todo"
    /\ Level(c) = 0
    /\ seen = Visible(Heap, c)
    /\ LET h0 == GetLeaf([Heap EXCEPT !.nodes[c].type = "AMBIGUOUS"], c, Level(c))
           h1 == findLeafVertices(h0, c, Check(Heap, c, seen), signs)
       IN  Store(done(checkVertexSigns(h1, c), c))
    /\ merged' = << >>
    /\ ret' = NoRet
    /\ UNCHANGED <<calls, abort>>
    /\ TreeStep

\* line 345: whether the call goes past the check, by the value read
PassesLate(old) == old <= 1
Passes(old) == old = 0

\* SimplexTree::collectChildren, lines 345-348, called by the worker that
\* finished the cell k
CollectArrive(k) ==
    /\ ~abort
    /\ nodes[k].phase = "arrive"
    /\ LET p == Parent(k)
           old == nodes[p].pending
       IN  /\ nodes' = [nodes EXCEPT
                           ![p].pending = old - 1,
                           ![p].phase = IF Passes(old) THEN "merging" ELSE @,
                           ![k].phase = "joined"]
           /\ calls' = [calls EXCEPT ![p] = Append(@, Passes(old))]
    /\ merged' = << >>
    /\ ret' = NoRet
    /\ UNCHANGED <<subs, pool, abort>>
    /\ TreeStep

\* lines 407-411
RECURSIVE MergeSubs(_, _, _, _)
MergeSubs(ss, c, i, sub) ==
    IF i \notin Subspaces THEN [subs |-> ss, sub |-> sub]
    ELSE MergeSubs(GetSub(ss, c, i), c, i + 1, [sub EXCEPT ![i] = <<c, i>>])

\* lines 510-515
RejectKept(h, p) == h
Reject(h, p) == [LeafReleaseTo(h, p) EXCEPT !.nodes[p].leaf = NullLeaf]

\* lines 379-391
MergedTypeAmbiguous(h, p) == "AMBIGUOUS"
MergedType(h, p) ==
    LET ts == {h.nodes[Child(p, i)].type : i \in Children}
    IN  IF ts = {"EMPTY"} THEN "EMPTY"
        ELSE IF ts = {"FILLED"} THEN "FILLED" ELSE "AMBIGUOUS"

\* lines 357-360: std::any_of over the children
AnyBranchNever(h, p) == FALSE
AnyBranch(h, p) == \E i \in Children : isBranch(h, Child(p, i))

(***************************************************************************)
(* SimplexTree::collectChildren, lines 437-489: the loops that sum the     *)
(* QEFs of the children, in n dimensions.  NeighborIndex j has digit 2 on  *)
(* its floating axes; pos() has the bit of an axis set when the digit is   *)
(* 1, fixed<N>() when it is not 2.                                         *)
(***************************************************************************)
\* the largest template parameter N the sums are made for
MaxDim == 3
Dims == 1..MaxDim

\* NeighborIndex::fixed, NeighborIndex::floating and NeighborIndex::pos,
\* bit d
FixedBit(j, d) == IF Digit(j, d) # 2 THEN 1 ELSE 0
FloatingBit(j, d) == IF Digit(j, d) = 2 THEN 1 ELSE 0
PosBit(j, d) == IF Digit(j, d) = 1 THEN 1 ELSE 0

\* lines 449-455
validAlways(n, i, j) == TRUE
valid(n, i, j) ==
    \A d \in 0..(n - 1) :
        FixedBit(j, d) = 1 => (PosBit(j, d) = 1 \/ Bit(i, d) = 0)

\* lines 471-483: bit d of floating_out and of pos_out
FloatingOut(i, j, d) ==
    IF FloatingBit(j, d) = 1 \/ PosBit(j, d) # Bit(i, d) THEN 1 ELSE 0
PosOut(i, j, d) ==
    IF FloatingOut(i, j, d) = 1 THEN 0 ELSE PosBit(j, d)

\* NeighborIndex::fromPosAndFloating, line 484, from axis d up
RECURSIVE fromPosAndFloating(_, _, _, _)
fromPosAndFloating(n, i, j, d) ==
    IF d >= n THEN 0
    ELSE (IF FloatingOut(i, j, d) = 1 THEN 2 ELSE PosOut(i, j, d)) * Pow(3, d)
         + fromPosAndFloating(n, i, j, d + 1)

\* lines 465-486
targetSame(n, i, j) == j
target(n, i, j) == fromPosAndFloating(n, i, j, 0)

\* the merge of a cell of n dimensions starts: lines 407-411 have taken
\* the subspaces of the parent, their QEFs empty
MergeStart(n) ==
    sums = [n |-> n, i |-> 0, j |-> 0,
            qef |-> [t \in 0..(Pow(3, n) - 1) |-> << >>]]

\* lines 437-489: the body of the inner loop for child i and subspace j,
\* and the step of the loops
MergeVisit ==
    /\ sums.n > 0
    /\ sums.i < Pow(2, sums.n)
    /\ LET n == sums.n
           i == sums.i
           j == sums.j
           q == IF valid(n, i, j)
                THEN [sums.qef EXCEPT ![target(n, i, j)] = Append(@, <<i, j>>)]
                ELSE sums.qef
           last_j == j + 1 = Pow(3, n)
       IN  sums' = [n |-> n,
                    i |-> IF last_j THEN i + 1 ELSE i,
                    j |-> IF last_j THEN 0 ELSE j + 1,
                    qef |-> q]
    /\ UNCHANGED <<tapeVars, handleVars, treeVars, walked, unrolled>>

(***************************************************************************)
(* Unroller::operator(), lines 84-135, on a leaf of n dimensions.          *)
(***************************************************************************)
\* the largest dimension the Unroller is run for
UnrollDim == 2

\* the value of j at line 120 when axis i is reached: the floating axes
\* of subspace k below i
SolIndex(k, i) == Cardinality({d \in 0..(i - 1) : FloatingBit(k, d) = 1})

\* lines 118-127: coordinate i of the vertex of subspace k
VertAtSolved(k, i) == <<"sol", k, i>>
VertAt(k, i) ==
    IF FloatingBit(k, i) = 1 THEN <<"sol", k, SolIndex(k, i)>>
    ELSE IF PosBit(k, i) = 1 THEN <<"upper", i, 0>>
    ELSE <<"lower", i, 0>>

\* lines 95-135: the recursion from SubspaceIndex_ = k down to -1
RECURSIVE Unroller(_, _, _, _)
Unroller(n, k, solved, vert) ==
    IF k < 0 THEN vert
    ELSE Unroller(n, k - 1, solved,
                  IF k \in solved THEN vert
                  ELSE [vert EXCEPT ![k] = [i \in 0..(n - 1) |-> VertAt(k, i)]])

\* a leaf of n dimensions before the call, some subspaces already solved
UnrollStart(n, solved) ==
    unrolled = [n |-> n, solved |-> solved, done |-> FALSE,
                vert |-> [k \in 0..(Pow(3, n) - 1) |->
                             [i \in 0..(n - 1) |-> <<"old", k, i>>]]]

\* Unroller<N, ipow(3, N) - 1>()(leaf, already_solved, region), as called
\* at lines 296 and 495
Unroll ==
    /\ unrolled.n > 0
    /\ ~unrolled.done
    /\ unrolled' = [unrolled EXCEPT
                       !.done = TRUE,
                       !.vert = Unroller(unrolled.n, Pow(3, unrolled.n) - 1,
                                         unrolled.solved, unrolled.vert)]
    /\ UNCHANGED <<tapeVars, handleVars, treeVars, walked, sums>>

\* lines 437-489 on the subspaces of the leaf of cell p: the QEF of each
\* is the sum of the QEFs of the child subspaces that pass the test and
\* have it as target
ChildQef(h, p, i, j) ==
    LET id == h.nodes[Child(p, i)].leaf.sub[j]
    IN  IF id \in DOMAIN h.subs THEN h.subs[id].qef ELSE {}
MergeQefs(h, p, ss, sub) ==
    [id \in DOMAIN ss |->
        IF \E t \in Subspaces : sub[t] = id
        THEN LET t == CHOOSE t \in Subspaces : sub[t] = id
             IN  [ss[id] EXCEPT !.qef = @ \cup UNION
                     {ChildQef(h, p, x[1], x[2]) :
                         x \in {y \in Children \X Subspaces :
                                   /\ valid(N, y[1], y[2])
                                   /\ target(N, y[1], y[2]) = t}}]
        ELSE ss[id]]

\* lines 350-519, small telling whether err < max_err
Merge(h, p, small, signs) ==
    IF AnyBranch(h, p)
    THEN done(h, p)
    ELSE LET h1 == [GetLeaf(h, p, Level(p)) EXCEPT
                       !.nodes[p].type = MergedType(h, p)]
         IN  IF h1.nodes[p].type \in {"EMPTY", "FILLED"}
             THEN done(findLeafVertices(releaseChildren(h1, p), p,
                                        NoNeighbors, NoSigns), p)
             ELSE LET t == MergeSubs(h1.subs, p, 0, h1.nodes[p].leaf.sub)
                      h2 == [h1 EXCEPT
                                !.subs = PlaceVerts(MergeQefs(h1, p, t.subs, t.sub),
                                                    p, t.sub, NoneSolved),
                                !.nodes[p].leaf.sub = t.sub]
                      h3 == [h2 EXCEPT !.subs =
                                 saveVertexSigns(h2.subs, t.sub, NoneSolved, signs)]
                  IN  IF small
                      THEN done(releaseChildren(checkVertexSigns(h3, p), p), p)
                      ELSE done(Reject(h2, p), p)

\* whether the merge gets as far as the QEF error of line 495
Ambiguous(h, p) ==
    /\ ~\E i \in Children : isBranch(h, Child(p, i))
    /\ MergedType(h, p) = "AMBIGUOUS"

\* the QEF errors a merge may find, around the threshold max_err
max_err == 1
Errs == 0..(max_err + 1)
\* line 499
SmallOrEqual(e) == e <= max_err
Small(e) == e < max_err

CollectMerge(p, e, signs) ==
    /\ nodes[p].phase = "merging"
    /\ Store(Merge(Heap, p, Small(e), signs))
    /\ merged' = IF Ambiguous(Heap, p) THEN <<p, e>> ELSE << >>
    /\ ret' = NoRet
    /\ UNCHANGED <<calls, abort>>
    /\ TreeStep

\* the abort flag is set while the build runs
Abort ==
    /\ ~abort
    /\ nodes[Root].phase \notin {"absent", "joined"}
    /\ abort' = TRUE
    /\ merged' = << >>
    /\ ret' = NoRet
    /\ UNCHANGED <<nodes, subs, pool, calls>>
    /\ TreeStep

BuildOver == nodes[Root].phase = "joined"
Released == nodes[Root].phase = "absent"

\* the tree is released, after the build or after its workers stopped
Release ==
    /\ BuildOver \/ abort
    /\ ~Released
    /\ \A c \in Cells : nodes[c].phase # "merging"
    /\ Store(ReleaseTree(Heap))
    /\ merged' = << >>
    /\ ret' = NoRet
    /\ UNCHANGED <<calls, abort>>
    /\ TreeStep

(***************************************************************************)
(* SimplexTree::assignIndices, lines 599-710.                              *)
(***************************************************************************)
\* where subspace j of cell c lies in the root region: a fixed axis by its
\* position, a floating axis by the cell's position and size
AbsPlace(c, j) ==
    [d \in Axes |->
        IF Digit(j, d) = 2 THEN <<2, Coord(c, d) * Pow(2, Level(c)), Level(c)>>
        ELSE <<0, (Coord(c, d) + Digit(j, d)) * Pow(2, Level(c)), 0>>]

\* NeighborIndex::isCorner and NeighborIndex::pos
RECURSIVE PosBits(_, _)
PosBits(j, d) ==
    IF d \notin Axes THEN 0
    ELSE (IF Digit(j, d) = 1 THEN Pow(2, d) ELSE 0) + PosBits(j, d + 1)
pos(j) == PosBits(j, 0)

\* SimplexNeighbors::getIndex on the neighbours of cell t: the index of the
\* subspace lying where subspace j of cell c lies, in a leaf cell that is a
\* neighbour of t or, the neighbour being a branch, lies within it; 0 if
\* there is none or it has no index yet
getIndex(h, t, c, j) ==
    LET found == {h.subs[h.nodes[x[1]].leaf.sub[x[2]]].index :
                     x \in {y \in Cells \X Subspaces :
                               /\ Len(y[1]) >= Len(t)
                               /\ SubSeq(y[1], 1, Len(t)) # t
                               /\ ~h.nodes[y[1]].leaf.null
                               /\ AbsPlace(y[1], y[2]) = AbsPlace(c, j)}} \ {0}
    IN  IF found = {} THEN 0 ELSE CHOOSE n \in found : TRUE

\* lines 685-698: the index found walking up from cell t, or 0
RECURSIVE WalkUp(_, _, _, _)
WalkUp(h, t, c, j) ==
    IF t = Root \/ ParentIndex(t) # pos(j) THEN 0
    ELSE LET n == getIndex(h, Parent(t), c, j)
         IN  IF n # 0 THEN n ELSE WalkUp(h, Parent(t), c, j)

\* line 707: the value index++ stores, and the counter after it
FreshIndexPre(index) == index + 1
FreshIndex(index) == index

\* lines 630-708 for subspaces j.. of the leaf cell c; st = [h, index]
RECURSIVE IndexSubs(_, _, _)
IndexSubs(st, c, j) ==
    IF j \notin Subspaces THEN st
    ELSE LET id == st.h.nodes[c].leaf.sub[j]
             n == getIndex(st.h, c, c, j)
             up == IF isCorner(j) THEN WalkUp(st.h, c, c, j) ELSE 0
         IN  IF n # 0
             THEN IndexSubs([st EXCEPT !.h.subs[id].index = n], c, j + 1)
             ELSE IF up # 0
             THEN IndexSubs([st EXCEPT !.h.subs[id].index = up], c, j + 1)
             ELSE IF isCorner(j) /\ st.h.subs[id].index # 0
             THEN IndexSubs(st, c, j + 1)
             ELSE IndexSubs([st EXCEPT !.h.subs[id].index = FreshIndex(st.index),
                                       !.index = @ + 1], c, j + 1)

\* lines 610-710: the cell c, then from its child i on
RECURSIVE IndexCell(_, _)
RECURSIVE IndexChildren(_, _, _)
IndexCell(st, c) ==
    IF isBranch(st.h, c) THEN IndexChildren(st, c, 0) ELSE IndexSubs(st, c, 0)
IndexChildren(st, c, i) ==
    IF i \notin Children THEN st
    ELSE IndexChildren(IndexCell(st, Child(c, i)), c, i + 1)

\* lines 599-608
assignIndices(h) == IndexCell([h |-> h, index |-> 1], Root).h

Indexed == \E id \in DOMAIN subs : subs[id].index # 0

\* assignIndices is called on the tree the build made
AssignIndices ==
    /\ BuildOver /\ ~abort /\ ~Indexed
    /\ Store(assignIndices(Heap))
    /\ merged' = << >>
    /\ ret' = NoRet
    /\ UNCHANGED <<calls, abort>>
    /\ TreeStep

TapeIdle ==
    /\ tapes = << >>
    /\ tape = 0
    /\ num_clauses = 0
    /\ disabled = << >>
    /\ remap = << >>

\* the build starts on a root cell taken from the pool
InitTree ==
    /\ TapeIdle
    /\ HandlesIdle
    /\ MergeIdle
    /\ nodes = [c \in Cells |-> IF c = Root THEN NewNode ELSE NoNode]
    /\ subs = << >>
    /\ pool = [nodes |-> 1, leaves |-> 0]
    /\ calls = [c \in Cells |-> << >>]
    /\ abort = FALSE
    /\ merged = << >>
    /\ ret = NoRet

NextTree ==
    \/ \E c \in Cells, state \in Types, safe \in BOOLEAN :
          EvalInterval(c, state, safe)
    \/ \E c \in Cells, signs \in Signs : EvalLeaf(c, Visible(Heap, c), signs)
    \/ \E k \in Cells : CollectArrive(k)
    \/ \E p \in Cells, e \in Errs, signs \in Signs :
          CollectMerge(p, e, signs)
    \/ Abort
    \/ AssignIndices
    \/ Release

SpecTree == InitTree /\ [][NextTree]_vars

(***************************************************************************)
(* SpecMerge: the QEF sums of one merge, for every dimension up to MaxDim.  *)
(***************************************************************************)
InitMerge ==
    /\ TapeIdle
    /\ HandlesIdle
    /\ TreeIdle
    /\ unrolled = NoUnroll
    /\ \E n \in Dims : MergeStart(n)

NextMerge == MergeVisit

SpecMerge == InitMerge /\ [][NextMerge]_vars

(***************************************************************************)
(* SpecUnroll: one call of the Unroller, for every dimension up to          *)
(* UnrollDim and every marking of the subspaces as already solved.          *)
(***************************************************************************)
InitUnroll ==
    /\ TapeIdle
    /\ HandlesIdle
    /\ TreeIdle
    /\ sums = NoSums
    /\ \E n \in 1..UnrollDim :
          \E solved \in SUBSET (0..(Pow(3, n) - 1)) : UnrollStart(n, solved)

NextUnroll == Unroll

SpecUnroll == InitUnroll /\ [][NextUnroll]_vars

(***************************************************************************)
(* Claims about the tree build.                                            *)
(***************************************************************************)
\* the sub[] slots, over all leaves, that point to the subspace id
Holders(id) ==
    {x \in Cells \X Subspaces :
        ~nodes[x[1]].leaf.null /\ nodes[x[1]].leaf.sub[x[2]] = id}

\* C7: after every operation of the build the refcount of each subspace
\* taken from the pool is the number of leaf sub[] slots that point to it,
\* the subspaces collectChildren allocates for a merge included.
C7_RefcountIsHolders ==
    \A id \in DOMAIN subs : subs[id].refcount = Cardinality(Holders(id))

\* C8: once the whole tree is released every node, leaf and subspace taken
\* from the pools is back in them, also after rejected merges.
C8_AllReturned ==
    Released => /\ pool.nodes = 0 /\ pool.leaves = 0 /\ DOMAIN subs = {}

\* C9: of the calls of collectChildren on a cell exactly the last of the
\* 2^N passes the pending check; every other call returns false and leaves
\* the cell's leaf, type and children as they were.
C9_LastCallPasses ==
    [][\A p \in Cells :
          Len(calls'[p]) = Len(calls[p]) + 1 =>
              LET n == Len(calls'[p])
              IN  /\ calls'[p][n] <=> (n = Pow(2, N))
                  /\ ~calls'[p][n] =>
                        /\ nodes'[p].leaf = nodes[p].leaf
                        /\ nodes'[p].type = nodes[p].type
                        /\ nodes'[p].children = nodes[p].children]_vars

\* every child of the root has called collectChildren, the last one with
\* a cell below it still at work
C9_Witness ==
    /\ Len(calls[Root]) = Pow(2, N)
    /\ calls[Root][Pow(2, N)]
    /\ ~calls[Root][1]
    /\ \E c \in Cells : Len(c) = 1 /\ Len(calls[c]) = Pow(2, N)

\* C10: when the build is over every cell of the tree is either a leaf
\* cell, with a leaf record and no children, or a branch with a null leaf
\* and all 2^N children.
C10_LeafOrBranch ==
    (BuildOver /\ ~abort) =>
        \A c \in Cells : nodes[c].phase # "absent" =>
            /\ nodes[c].phase = "joined"
            /\ \/ ~nodes[c].leaf.null /\ nodes[c].children = {}
               \/ /\ nodes[c].leaf.null /\ nodes[c].children = Children
                  /\ \A i \in Children : nodes[Child(c, i)].phase # "absent"

\* a finished tree whose root is a branch over a cell whose merge was
\* rejected and a cell that was merged into a leaf
C10_Witness ==
    /\ BuildOver /\ ~abort
    /\ nodes[Root].children = Children
    /\ \E c, d \in Cells :
          /\ Len(c) = 1 /\ Len(d) = 1
          /\ nodes[c].children = Children /\ nodes[c].leaf.null
          /\ Len(calls[d]) = Pow(2, N) /\ ~nodes[d].leaf.null

\* the inside flags of the subspaces the leaf of cell c points to
InsideFlags(c) == {subs[nodes[c].leaf.sub[i]].inside : i \in Subspaces}
\* the subspaces of its leaf that cell c took from a neighbour
Borrowed(c) == {i \in Subspaces : nodes[c].leaf.sub[i] # <<c, i>>}

\* C11: in every state of the build the inside flags of the subspaces of a
\* FILLED leaf cell are all true and those of an EMPTY leaf cell all false,
\* the subspaces borrowed from a neighbour included.
C11_FlagsAgreeWithType ==
    \A c \in Cells : ~nodes[c].leaf.null =>
        /\ nodes[c].type = "FILLED" => InsideFlags(c) = {TRUE}
        /\ nodes[c].type = "EMPTY" => InsideFlags(c) = {FALSE}

\* a FILLED leaf cell that holds a subspace borrowed from its neighbour
C11_Witness ==
    \E c \in Cells :
        /\ ~nodes[c].leaf.null /\ nodes[c].type = "FILLED"
        /\ Borrowed(c) # {}

\* C12: a merge that reaches the QEF error (last sibling arrived, no child
\* a branch, children not all EMPTY and not all FILLED) commits exactly when
\* the error is strictly less than max_err: then the children are released
\* and the cell keeps its leaf; otherwise the leaf goes back to the pool,
\* the cell's leaf is null and its 2^N children are kept as they were.
C12_CommitIffSmall ==
    [][\A p \in Cells :
          (nodes[p].phase = "merging" /\ nodes'[p].phase # "merging"
              /\ Ambiguous(Heap, p)) =>
              IF merged'[2] < max_err
              THEN /\ ~nodes'[p].leaf.null
                   /\ nodes'[p].children = {}
                   /\ \A i \in Children : nodes'[Child(p, i)] = NoNode
                   /\ pool'.leaves = pool.leaves + 1 - Pow(2, N)
                   /\ pool'.nodes = pool.nodes - Pow(2, N)
              ELSE /\ nodes'[p].leaf.null
                   /\ pool' = pool
                   /\ nodes'[p].children = Children
                   /\ \A i \in Children :
                         nodes'[Child(p, i)] = nodes[Child(p, i)]]_vars

\* a merge whose error was exactly max_err, and was rejected
C12_Witness ==
    /\ merged # << >>
    /\ merged[2] = max_err
    /\ nodes[merged[1]].leaf.null
    /\ nodes[merged[1]].children = Children

\* the subspaces the leaves of the tree point to, and their indices
Held == {nodes[c].leaf.sub[i] : c \in {x \in Cells : ~nodes[x].leaf.null},
                                i \in Subspaces}
IndicesInUse == {subs[id].index : id \in Held}

\* C13: after assignIndices on a built tree no subspace of a leaf has index
\* 0 and the indices in use are exactly 1..k for some k; the 3^N subspaces
\* of a tree that is a single root leaf get the distinct indices 1..3^N.
C13_IndicesDense ==
    (Indexed /\ ~Released) =>
        /\ 0 \notin IndicesInUse
        /\ IndicesInUse = 1..Cardinality(IndicesInUse)
        /\ ~nodes[Root].leaf.null =>
              /\ IndicesInUse = 1..Pow(3, N)
              /\ \A i, j \in Subspaces :
                    i # j => subs[nodes[Root].leaf.sub[i]].index
                                # subs[nodes[Root].leaf.sub[j]].index

\* an indexed tree of cells of two sizes in which two subspace objects that
\* lie at the same corner got the same index
C13_Witness ==
    /\ Indexed /\ ~Released
    /\ \E c, d \in Cells :
          /\ ~nodes[c].leaf.null /\ ~nodes[d].leaf.null
          /\ Len(c) # Len(d)
          /\ \E i, j \in Subspaces :
                /\ nodes[c].leaf.sub[i] # nodes[d].leaf.sub[j]
                /\ subs[nodes[c].leaf.sub[i]].index
                      = subs[nodes[d].leaf.sub[j]].index

\* whether the point p lies in the box stored on the Subtape s, bounds
\* included
InBox(s, p) ==
    /\ s.X[1] <= p[1] /\ p[1] <= s.X[2]
    /\ s.Y[1] <= p[2] /\ p[2] <= s.Y[2]
    /\ s.Z[1] <= p[3] /\ p[3] <= s.Z[2]
\* the Subtapes from the cursor down at which getBase(p) may stop
Stops(p) ==
    {k \in 1..tape : k = 1 \/ (tapes[k].type = "INTERVAL" /\ InBox(tapes[k], p))}

\* C14: getBase(p) leaves the cursor on the Subtape nearest the original
\* cursor, going toward the base, that is INTERVAL and whose box contains p
\* (bounds included), or on the base; it changes no Subtape; destroying the
\* Handle it returned puts the cursor back on the original Subtape.
C14_GetBaseStops ==
    [][/\ last'.op = "getBase" =>
             /\ tape' \in Stops(last'.p)
             /\ \A k \in Stops(last'.p) : k <= tape'
             /\ tapes' = tapes
             /\ handles'[last'.h].type = "BASE"
             /\ handles'[last'.h].prev = tape
       /\ (last'.op = "destroy" /\ last'.ty = "BASE") =>
             /\ tape' = handles[last'.h].prev
             /\ tapes' = tapes]_vars

\* getBase stopped on an INTERVAL Subtape between the base and the cursor
C14_Witness ==
    /\ last.op = "getBase"
    /\ tape > 1
    /\ tape < handles[last.h].prev
    /\ last.p[1] = tapes[tape].X[2]

\* C15: a push in which no clause answered KEEP_BOTH leaves the cursor on a
\* new Subtape whose dummy counter is 1; a push on a dummy Subtape only
\* adds one to its counter, and a pop only takes one off it while it is
\* above 1; the pop that finds it at 1 (or 0) moves the cursor back.
C15_DummyCounts ==
    [][/\ (last'.op = "push" /\ tapes[tape].dummy = 0) =>
             /\ tape' = tape + 1
             /\ tapes'[tape'].dummy = IF last'.hc THEN 0 ELSE 1
       /\ (last'.op = "push" /\ tapes[tape].dummy >= 1) =>
             /\ tape' = tape
             /\ tapes' = [tapes EXCEPT ![tape].dummy = @ + 1]
             /\ UNCHANGED <<disabled, remap>>
       /\ (last'.op = "destroy" /\ last'.pops = 1 /\ tapes[tape].dummy > 1) =>
             /\ tape' = tape
             /\ tapes' = [tapes EXCEPT ![tape].dummy = @ - 1]
       /\ (last'.op = "destroy" /\ last'.pops = 1 /\ tapes[tape].dummy <= 1) =>
             /\ tape' = tape - 1
             /\ tapes' = tapes]_vars

\* a pop has brought the counter of a dummy Subtape back to 1
C15_Witness ==
    /\ last.op = "destroy" /\ last.pops = 1
    /\ tapes[tape].dummy = 1

\* C16: the stack of Subtapes never gets shorter and never holds more than
\* one Subtape per level of push nesting reached so far, plus the base: a
\* push from a cursor below the top takes the place of the Subtape above it.
C16_StackBounded ==
    /\ [](Len(tapes) <= 1 + depth)
    /\ [][/\ Len(tapes') >= Len(tapes)
          /\ (last'.op = "push" /\ tape < Len(tapes)) =>
                Len(tapes') = Len(tapes)]_vars

\* a push that took the place of a Subtape left by an earlier push, under a
\* Subtape that is kept
C16_Witness ==
    /\ last.op = "push" /\ snap.sub.dummy = 0
    /\ tape < Len(tapes)

\* C17: in every state reached by pushes, pops and getBase, utilization(),
\* the number of clauses of the current Subtape over that of the base
\* Subtape, is at least 0 and at most 1.
C17_UtilizationInUnit ==
    LET u == utilization(tapes, tape)
    IN  ~failed => /\ u[2] > 0
                   /\ 0 <= u[1]
                   /\ u[1] <= u[2]

\* after a getBase the cursor is on a pushed Subtape shorter than the base
C17_Witness ==
    /\ last.op = "getBase"
    /\ tape > 1
    /\ utilization(tapes, tape)[1] < utilization(tapes, tape)[2]

\* C18: while the leaves are filled (evalLeaf calling findLeafVertices), no
\* cell takes a pointer to a subspace that a neighbouring cell holds: every
\* one of the 3^N subspaces of a leaf filled by evalLeaf is the one that
\* was allocated from the pool for that cell.
C18_LeafFillAllocatesAll ==
    \A c \in Cells :
        (Level(c) = 0 /\ ~nodes[c].leaf.null) => Borrowed(c) = {}

\* C19: when isSafe() is false after evalAndPush, evalInterval makes the
\* cell AMBIGUOUS whatever the state of the interval result, takes no leaf
\* and no subspace from the pool, returns the handle the caller passed and
\* not the pushed one, and does not stop the build.
C19_UnsafeIsAmbiguous ==
    [][(ret'.op = "evalInterval" /\ ~ret'.safe) =>
          /\ nodes'[ret'.c].type = "AMBIGUOUS"
          /\ nodes'[ret'.c].leaf.null
          /\ pool'.leaves = pool.leaves
          /\ subs' = subs
          /\ ret'.tape = "caller"
          /\ abort' = abort]_vars

\* an unsafe evaluation whose interval result says FILLED has just returned
C19_Witness ==
    /\ ret.op = "evalInterval"
    /\ ~ret.safe
    /\ ret.state = "FILLED"

\* the number of the first callback that leaves the flag set, 0 if none
FirstSet(w) ==
    IF w.sets \cap (1..Len(w.fn)) = {} THEN 0
    ELSE CHOOSE k \in w.sets \cap (1..Len(w.fn)) :
            \A j \in w.sets \cap (1..Len(w.fn)) : k <= j

\* C20: a walk or rwalk that starts with the abort flag true calls the
\* callback for no clause; if the flag becomes true during a callback, that
\* callback is the last one; if the flag is never set, walk calls the
\* callback once per clause of the current Subtape in forward order and
\* rwalk once per clause in reverse order.  In every case rwalk returns the
\* id of the first clause of the current Subtape.
C20_WalkPollsAbort ==
    [][LET t == tapes[tape].t
           w == walked'
           all == IF w.op = "walk" THEN t ELSE Reverse(t)
       IN  w # walked =>
             /\ w.start => w.fn = << >>
             /\ (~w.start /\ w.abort) =>
                   /\ FirstSet(w) = Len(w.fn)
                   /\ w.fn = SubSeq(all, 1, FirstSet(w))
             /\ (~w.start /\ ~w.abort) => w.fn = all
             /\ w.op = "rwalk" => w.id = t[1].id]_vars

\* an rwalk of a pushed Subtape of two clauses or more that the first
\* callback stopped
C20_Witness ==
    /\ walked.op = "rwalk"
    /\ tape > 1
    /\ ~walked.start /\ walked.abort
    /\ Len(tapes[tape].t) >= 2
    /\ walked.fn = <<tapes[tape].t[Len(tapes[tape].t)]>>
    /\ walked.id = tapes[tape].t[1].id

\* the clause with the given id in a clause vector that holds it
ClauseWith(t, id) == t[CHOOSE k \in PosOf(t, id) : TRUE]
Ids(t) == {t[k].id : k \in 1..Len(t)}

\* the ids reached from id through the operand fields of the clauses of t
RECURSIVE ReachIn(_, _)
ReachIn(t, id) ==
    IF PosOf(t, id) = {} THEN {}
    ELSE {id} \cup UNION {ReachIn(t, x) : x \in Operands(ClauseWith(t, id))}

\* the ids reached from id in t when a clause the classifier replaced by an
\* operand is passed through to that operand only
RECURSIVE ReachKept(_, _, _)
ReachKept(t, rm, id) ==
    IF PosOf(t, id) = {} THEN {}
    ELSE {id} \cup UNION {ReachKept(t, rm, x) :
                              x \in IF rm[id] # 0 THEN {rm[id]}
                                    ELSE Operands(ClauseWith(t, id))}

C22_SlotMapCarried ==
    \A s \in 1..Len(tapes) : \A k \in 1..Len(tapes[s].t) :
        LET id == tapes[s].t[k].id
        IN  /\ id \in DOMAIN tapes[s].m
            /\ tapes[s].m[id] = tapes[1].m[id]

\* C23: the base tape built from n distinct nodes has n clauses whose ids
\* are the values 1..n, each on one clause and none 0, and num_clauses is
\* n + 1, so that every clause id and every operand field of the base tape
\* is an index of the vectors disabled and remap.
C23_IdsDense ==
    LET t == tapes[1].t
        n == Len(t)
    IN  /\ num_clauses = n + 1
        /\ Ids(t) = 1..n
        /\ \A id \in 1..n : Cardinality(PosOf(t, id)) = 1
        /\ DOMAIN disabled = 0..(num_clauses - 1)
        /\ DOMAIN remap = 0..(num_clauses - 1)
        /\ \A k \in 1..n : {t[k].id, t[k].a, t[k].b} \subseteq DOMAIN disabled

\* a tape just built from the largest tree, with a binary clause and a
\* constant
C23_Witness ==
    /\ last.op = "init"
    /\ Len(tapes[1].t) = MaxNodes
    /\ \E k \in 1..MaxNodes : tapes[1].t[k].op \in BinaryOps
    /\ \E k \in 1..MaxNodes : tapes[1].t[k].op = "CONSTANT"

\* where subspace j of child i lies in the subdivided cell, axis by axis,
\* in halves of the cell: the point x as <<0, x>> with x in 0..2, the
\* half that starts at x as <<2, x>> with x in 0..1
SubPlace(n, i, j) ==
    [d \in 0..(n - 1) |->
        IF Digit(j, d) = 2 THEN <<2, Bit(i, d)>>
        ELSE <<0, Bit(i, d) + Digit(j, d)>>]

\* the 5^n sub-subspaces of the subdivided cell
SubPlaces(n) ==
    [0..(n - 1) -> {<<0, 0>>, <<0, 1>>, <<0, 2>>, <<2, 0>>, <<2, 1>>}]

\* the QEFs added so far, as <<parent subspace, position in its sum>>
Summed ==
    UNION {{<<t, k>> : k \in 1..Len(sums.qef[t])} : t \in DOMAIN sums.qef}
PlaceOf(x) ==
    LET pr == sums.qef[x[1]][x[2]] IN SubPlace(sums.n, pr[1], pr[2])
MergeOver == sums.n > 0 /\ sums.i = Pow(2, sums.n)

\* C24: in the merge no sub-subspace of the subdivided cell has its QEF
\* added twice, and when the loops over the 2^N children and their 3^N
\* subspaces are over, the QEFs added are those of the 5^N distinct
\* sub-subspaces, each once and none omitted.
C24_EachPlaceOnce ==
    sums.n > 0 =>
        /\ Cardinality({PlaceOf(x) : x \in Summed}) = Cardinality(Summed)
        /\ MergeOver =>
              /\ {PlaceOf(x) : x \in Summed} = SubPlaces(sums.n)
              /\ Cardinality(Summed) = Pow(5, sums.n)

\* the merge of a cell of MaxDim dimensions is over
C24_Witness ==
    /\ MergeOver
    /\ sums.n = MaxDim
    /\ Cardinality(Summed) < Pow(2, MaxDim) * Pow(3, MaxDim)

\* the subspace of the parent of the fewest floating axes that contains a
\* place: fixed low where the place is the point 0, fixed high where it is
\* the point 2, floating on the other axes
RECURSIVE LowestContaining(_, _, _)
LowestContaining(n, pl, d) ==
    IF d >= n THEN 0
    ELSE (IF pl[d] = <<0, 0>> THEN 0 ELSE IF pl[d] = <<0, 2>> THEN 1 ELSE 2)
            * Pow(3, d)
         + LowestContaining(n, pl, d + 1)

\* C25: every QEF the merge adds goes to the subspace of the parent of the
\* lowest dimension that contains the child subspace: an axis is fixed in
\* the target, at the same low or high position, exactly when the child
\* subspace is fixed on it at the position of the child's corner bit, and
\* floating otherwise.
C25_TargetIsLowest ==
    \A x \in Summed :
        LET t == x[1]
            i == sums.qef[x[1]][x[2]][1]
            j == sums.qef[x[1]][x[2]][2]
        IN  /\ t = LowestContaining(sums.n, PlaceOf(x), 0)
            /\ \A d \in 0..(sums.n - 1) :
                  IF Digit(j, d) # 2 /\ Digit(j, d) = Bit(i, d)
                  THEN Digit(t, d) = Digit(j, d)
                  ELSE Digit(t, d) = 2

\* in three dimensions a corner of a child was added to an edge of the
\* parent, another to the parent's centre
C25_Witness ==
    /\ sums.n = MaxDim
    /\ \E x, y \in Summed :
          /\ \A d \in 0..(MaxDim - 1) : Digit(sums.qef[x[1]][x[2]][2], d) # 2
          /\ \A d \in 0..(MaxDim - 1) : Digit(sums.qef[y[1]][y[2]][2], d) # 2
          /\ Cardinality({d \in 0..(MaxDim - 1) : Digit(x[1], d) = 2}) = 1
          /\ \A d \in 0..(MaxDim - 1) : Digit(y[1], d) = 2

\* the cells below cell p
Below(p) == {c \in Cells : Len(c) > Len(p) /\ SubSeq(c, 1, Len(p)) = p}

\* C26: when the call of collectChildren that passed the pending check
\* finds a child that is a branch, the cell stays a branch: no leaf and no
\* subspace is taken from or returned to the pools, the cell's leaf stays
\* null and its children stay, no cell below it is released or changed,
\* and the call has returned true.
C26_BranchChildKeepsBranch ==
    [][\A p \in Cells :
          (/\ nodes[p].phase = "merging" /\ nodes'[p].phase # "merging"
           /\ \E i \in Children : nodes[Child(p, i)].children = Children) =>
              /\ pool' = pool
              /\ subs' = subs
              /\ nodes'[p].leaf.null
              /\ nodes'[p].type = nodes[p].type
              /\ nodes'[p].children = Children
              /\ \A c \in Below(p) : nodes'[c] = nodes[c]
              /\ calls'[p][Len(calls'[p])]]_vars

\* the root is done as a branch over a child that is a branch and a child
\* that is a leaf
C26_Witness ==
    /\ nodes[Root].phase = "joined"
    /\ nodes[Root].leaf.null
    /\ nodes[Root].children = Children
    /\ \E i, k \in Children :
          /\ nodes[Child(Root, i)].children = Children
          /\ ~nodes[Child(Root, k)].leaf.null

\* the types of the children of cell p
ChildTypes(p) == {nodes[Child(p, i)].type : i \in Children}

\* C27: when the call of collectChildren that passed the pending check
\* finds no branch among the children and all of them EMPTY (or all of
\* them FILLED), the cell becomes a leaf of that type, its children are
\* released and the inside flags of its 3^N subspaces are all false (all
\* true), whatever the QEF error and the vertex signs would be.
C27_HomogeneousCollapses ==
    [][\A p \in Cells : \A ty \in {"EMPTY", "FILLED"} :
          (/\ nodes[p].phase = "merging" /\ nodes'[p].phase # "merging"
           /\ \A i \in Children : nodes[Child(p, i)].children # Children
           /\ ChildTypes(p) = {ty}) =>
              /\ nodes'[p].type = ty
              /\ ~nodes'[p].leaf.null
              /\ nodes'[p].children = {}
              /\ \A c \in Below(p) : nodes'[c] = NoNode
              /\ \A i \in Subspaces :
                    subs'[nodes'[p].leaf.sub[i]].inside = (ty = "FILLED")]_vars

\* the root has just become a FILLED leaf by the merge of its children,
\* which found them all FILLED
C27_Witness ==
    /\ ~abort
    /\ nodes[Root].phase = "joined"
    /\ Len(calls[Root]) = Pow(2, N)
    /\ merged = << >>
    /\ ~nodes[Root].leaf.null
    /\ nodes[Root].type = "FILLED"
    /\ \A i \in Subspaces : subs[nodes[Root].leaf.sub[i]].index = 0

\* C28: after the Unroller has run on a leaf, the vertex of every subspace
\* not marked already solved has, on each axis the subspace is fixed on,
\* the region's upper bound when it is high and the lower bound when it is
\* low, and on its floating axes the coordinates of the QEF solution of
\* that subspace, in order; the vertex of a subspace marked already solved
\* is as it was.
C28_FixedAxesPinned ==
    unrolled.done =>
        \A k \in DOMAIN unrolled.vert :
            LET v == unrolled.vert[k]
                floating == {d \in 0..(unrolled.n - 1) : Digit(k, d) = 2}
            IN  IF k \in unrolled.solved
                THEN \A i \in 0..(unrolled.n - 1) : v[i] = <<"old", k, i>>
                ELSE /\ \A i \in 0..(unrolled.n - 1) :
                          /\ Digit(k, i) = 1 => v[i] = <<"upper", i, 0>>
                          /\ Digit(k, i) = 0 => v[i] = <<"lower", i, 0>>
                          /\ Digit(k, i) = 2 => (v[i][1] = "sol" /\ v[i][2] = k)
                     /\ {v[i][3] : i \in floating}
                            = 0..(Cardinality(floating) - 1)
                     /\ \A i, d \in floating : i < d => v[i][3] < v[d][3]

\* the Unroller has run on a leaf of UnrollDim dimensions in which a
\* corner was already solved and an edge fixed high on one axis was not
C28_Witness ==
    /\ unrolled.done
    /\ unrolled.n = UnrollDim
    /\ \E k \in unrolled.solved : \A d \in 0..(UnrollDim - 1) : Digit(k, d) # 2
    /\ \E k \in DOMAIN unrolled.vert \ unrolled.solved :
          /\ \E d \in 0..(UnrollDim - 1) : Digit(k, d) = 1
          /\ \E d \in 0..(UnrollDim - 1) : Digit(k, d) = 2

\* the position of the clause with the given id in a clause vector
PlaceIn(t, id) == CHOOSE k \in PosOf(t, id) : TRUE

\* C29: after a push that makes a new Subtape, every operand of every
\* clause of the new Subtape that is not a dummy-children clause is the id
\* of a clause of that Subtape; every link of the remap chain leads to a
\* clause further on in the previous Subtape, so the chain ends, and from
\* an operand of a kept clause it ends at a clause that is neither
\* disabled nor remapped.
C29_OperandsPresent ==
    (JustPushed /\ snap.sub.dummy = 0) =>
        LET new == tapes[tape].t
            old == snap.sub.t
        IN  /\ \A k \in 1..Len(new) : Operands(new[k]) \subseteq Ids(new)
            /\ \A x \in Ids(old) : remap[x] # 0 =>
                  /\ remap[x] \in Ids(old)
                  /\ PlaceIn(old, remap[x]) > PlaceIn(old, x)
            /\ \A k \in 1..Len(old) :
                  (~disabled[old[k].id] /\ ~hasDummyChildren(old[k].op)) =>
                      \A x \in {old[k].a, old[k].b} \ {0} :
                          /\ ~disabled[Follow(remap, x)]
                          /\ remap[Follow(remap, x)] = 0
                          /\ Follow(remap, x) \in Ids(new)

\* a push kept a clause whose operand was reached through two links of
\* the remap chain
C29_Witness ==
    /\ JustPushed /\ snap.sub.dummy = 0
    /\ \E k \in 1..Len(snap.sub.t) :
          LET c == snap.sub.t[k]
          IN  /\ ~disabled[c.id] /\ ~hasDummyChildren(c.op)
              /\ c.a # 0
              /\ remap[c.a] # 0
              /\ remap[remap[c.a]] # 0
              /\ Follow(remap, c.a) \in Ids(tapes[tape].t)

\* C30: a push whose classifier answers KEEP_BOTH or KEEP_ALWAYS for the
\* dummy-children clauses copies every CONSTANT, VAR_FREE and ORACLE clause
\* it keeps with the payload fields a and b it had in the previous Subtape,
\* also when the payload equals the id of a clause remapped in that push,
\* and keeps no clause because a payload equals its id.
C30_PayloadUnchanged ==
    (JustPushed /\ snap.sub.dummy = 0) =>
        LET new == tapes[tape].t
            old == snap.sub.t
        IN  /\ \A k \in 1..Len(new) :
                  hasDummyChildren(new[k].op) =>
                      new[k] = ClauseWith(old, new[k].id)
            /\ Ids(new) = ReachIn(new, new[1].id)

\* C31: when evalLeaf fills a cell, every subspace the cell borrowed from
\* a neighbour has its refcount one higher than before and is otherwise
\* as it was: its qef, vert and inside are not written by the corner
\* sampling, by the Unroller or by saveVertexSigns.
C31_BorrowedOnlyCounted ==
    [][\A c \in Cells :
          (/\ Level(c) = 0
           /\ nodes[c].phase = "todo" /\ nodes'[c].phase # "todo") =>
              \A i \in Subspaces :
                  LET id == nodes'[c].leaf.sub[i]
                  IN  id \in DOMAIN subs =>
                          subs'[id] = [subs[id] EXCEPT !.refcount = @ + 1]]_vars

\* a cell just filled by evalLeaf holds a corner subspace that its
\* neighbour sampled and placed, and one of its own
C31_Witness ==
    \E c \in Cells : \E i, k \in Subspaces :
        /\ Level(c) = 0 /\ nodes[c].phase = "arrive"
        /\ i \in Borrowed(c)
        /\ c \notin subs[nodes[c].leaf.sub[i]].qef
        /\ subs[nodes[c].leaf.sub[i]].qef # {}
        /\ subs[nodes[c].leaf.sub[i]].vert # {c}
        /\ subs[nodes[c].leaf.sub[k]].qef = {c}
        /\ subs[nodes[c].leaf.sub[k]].vert = {c}

=============================================================================
